---- MODULE Spec2Model ----
(***************************************************************************)
(* State-machine model of crates/bevy_openxr/src/resources.rs: the erased  *)
(* entry / instance / session / frame-stream / swapchain handles of        *)
(* bevy_openxr.                                                            *)
(*                                                                         *)
(* Seven specifications share one set of variables:                        *)
(*   Spec            XrEntry: create_instance and available_backends       *)
(*                   against a runtime that enumerates a fixed extension   *)
(*                   set                                                   *)
(*   SpecSession     XrInstance / XrSession: init_graphics, create_session,*)
(*                   create_swapchain, enumerate_swapchain_formats, on     *)
(*                   instances of any backend                              *)
(*   SpecFrame       XrFrameStream: begin / end from several threads       *)
(*                   sharing clones of one handle                          *)
(*   SpecSwap        XrSwapchain: acquire_image / wait_image /             *)
(*                   release_image / enumerate_images from several threads *)
(*                   sharing clones of one handle                          *)
(*   SpecShared      both handles at once, with calls that panic under the *)
(*                   lock and calls that find the mutex poisoned           *)
(*   SpecWaitingFair the same calls with callers that block in lock(),     *)
(*                   under weak fairness                                   *)
(*   SpecStarted     XrSessionStarted: set / get from several threads      *)
(*                                                                         *)
(* Every public call leaves a record of what it did in `last`: the         *)
(* receiver it was called on, its arguments, the value it returned, the    *)
(* native calls it made (in order) and the messages it logged. A call on a *)
(* mutex-guarded handle is two steps, taking the lock and returning; the   *)
(* native call happens, under the lock, in the returning step.             *)
(***************************************************************************)
EXTENDS Integers, Sequences, FiniteSets, TLC

VARIABLES
    available_exts, \* the extension set the native runtime enumerates
    instance,       \* the XrInstance the application holds, or None
    infos,          \* the XrSessionGraphicsInfo values the application holds
    session,        \* the XrSession the application holds, or None
    stream,         \* the XrFrameStream (all clones share it), or None
    swapchain,      \* the XrSwapchain (all clones share it), or None
    mutex,          \* holder of each handle's Mutex: a thread, or 0 when free
    poisoned,       \* per handle: a thread panicked while holding its Mutex
    thr,            \* per thread: the call it is inside and what it read
    acquired_by,    \* the threads whose acquire_image is not yet matched by a
                    \* release_image, oldest first
    started,        \* the AtomicBool every clone of XrSessionStarted shares
    history,        \* the set / get calls on XrSessionStarted, in the order
                    \* they took effect
    last            \* record of the call that returned most recently

vars == <<available_exts, instance, infos, session, stream, swapchain,
          mutex, poisoned, thr, acquired_by, started, history, last>>

----------------------------------------------------------------------------
(* Bounds *)

NumBackends == 2    \* graphics backends compiled in
NumOtherExts == 1   \* runtime extensions that no backend requires
MaxLayers == 3      \* composition layers handed to one end call
NumThreads == 2     \* threads holding a clone of a shared handle
RingSize == 2       \* images in the native swapchain ring

NumFormats == 3      \* native swapchain formats the runtime knows

MaxOps == 4          \* set / get calls on XrSessionStarted in one run

Backends == 1..NumBackends
Exts == 1..(NumBackends + NumOtherExts)
Threads == 1..NumThreads

None == [none |-> TRUE]
NoCall == [op |-> "none"]

Ok(v) == [ok |-> TRUE, val |-> v]
Err(e) == [ok |-> FALSE, err |-> e]

----------------------------------------------------------------------------
(* crate::graphics / crate::types / crate::error: used by resources.rs,    *)
(* defined outside it.                                                     *)

\* GraphicsBackend::required_exts: the extension a backend cannot do without
\* (extension b is backend b's enable extension).
required_exts(backend) == {backend}

\* GraphicsBackend::is_available: the backend's required extensions are all
\* among the enumerated ones.
is_available(backend, exts) == required_exts(backend) \subseteq exts

\* XrExtensions | XrExtensions
BitOr(a, b) == a \cup b

\* XrExtensions -> openxr::ExtensionSet: one boolean flag per extension.
IntoExtensionSet(exts) == [e \in Exts |-> e \in exts]

\* GraphicsWrap::graphics_name: the name of the backend a container holds.
graphics_name(backend) == <<"Api", backend>>

\* GraphicsWrap::using_graphics_of_val: does this container hold the backend
\* of that value.
using_graphics_of_val(tag, backend) == tag = backend

\* GraphicsWrap::using_graphics::<Api>
using_graphics(tag, api) == tag = api

UnavailableBackend(backend) ==
    [kind |-> "UnavailableBackend", backend |-> backend]

GraphicsBackendMismatch(item, backend, expected_backend) ==
    [kind |-> "GraphicsBackendMismatch", item |-> item,
     backend |-> backend, expected_backend |-> expected_backend]

\* XrError from a result code of the native runtime.
NativeError(code) == [kind |-> "Native", code |-> code]

\* `?` on a native result inside a function returning crate::error::Result:
\* a value passes, an error code is converted into an XrError.
Try(r) == IF r.ok THEN r ELSE Err(NativeError(r.err))

----------------------------------------------------------------------------
(* XrEntry *)

\* XrEntry::enumerate_extensions: the runtime answers with its extension set
\* or fails.
enumerate_extensions(runtime_exts, enum_ok) ==
    IF enum_ok THEN Ok(runtime_exts) ELSE Err(NativeError("RuntimeFailure"))

EnumerateCall == [fn |-> "xrEnumerateInstanceExtensionProperties"]
CreateInstanceCall(ext_set) == [fn |-> "xrCreateInstance", exts |-> ext_set]

\* XrInstance(instance, backend, app_info): the native handle and the
\* application info are opaque here, the backend tag is what later calls read.
XrInstance(backend) == [backend |-> backend]

create_instance_unchecked(runtime_exts, exts, backend, enum_ok, native_ok) ==
    LET enumerated == enumerate_extensions(runtime_exts, enum_ok)
    IN  IF ~enumerated.ok
        THEN [ret |-> enumerated, native |-> <<EnumerateCall>>]
        ELSE LET call == CreateInstanceCall(
                     IntoExtensionSet(BitOr(exts, required_exts(backend))))
             IN  [ret |-> IF native_ok THEN Ok(XrInstance(backend))
                          ELSE Err(NativeError("RuntimeFailure")),
                  native |-> <<EnumerateCall, call>>]

create_instance_native_first(runtime_exts, exts, backend, enum_ok, native_ok) ==
    LET enumerated == enumerate_extensions(runtime_exts, enum_ok)
        call == CreateInstanceCall(
                    IntoExtensionSet(BitOr(exts, required_exts(backend))))
    IN  IF ~enumerated.ok
        THEN [ret |-> enumerated, native |-> <<EnumerateCall>>]
        ELSE IF ~native_ok
        THEN [ret |-> Err(NativeError("RuntimeFailure")),
              native |-> <<EnumerateCall, call>>]
        ELSE IF ~is_available(backend, enumerated.val)
        THEN [ret |-> Err(UnavailableBackend(backend)),
              native |-> <<EnumerateCall, call>>]
        ELSE [ret |-> Ok(XrInstance(backend)),
              native |-> <<EnumerateCall, call>>]

create_instance_exts_only(runtime_exts, exts, backend, enum_ok, native_ok) ==
    LET enumerated == enumerate_extensions(runtime_exts, enum_ok)
    IN  IF ~enumerated.ok
        THEN [ret |-> enumerated, native |-> <<EnumerateCall>>]
        ELSE IF ~is_available(backend, enumerated.val)
        THEN [ret |-> Err(UnavailableBackend(backend)),
              native |-> <<EnumerateCall>>]
        ELSE LET call == CreateInstanceCall(IntoExtensionSet(exts))
             IN  [ret |-> IF native_ok THEN Ok(XrInstance(backend))
                          ELSE Err(NativeError("RuntimeFailure")),
                  native |-> <<EnumerateCall, call>>]

\* XrEntry::create_instance. What it returns and the native calls it makes,
\* given the runtime's extension set and whether each native call succeeds.
create_instance(runtime_exts, exts, backend, enum_ok, native_ok) ==
    LET enumerated == enumerate_extensions(runtime_exts, enum_ok)
    IN  IF ~enumerated.ok
        THEN [ret |-> enumerated, native |-> <<EnumerateCall>>]
        ELSE IF ~is_available(backend, enumerated.val)
        THEN [ret |-> Err(UnavailableBackend(backend)),
              native |-> <<EnumerateCall>>]
        ELSE LET required == BitOr(exts, required_exts(backend))
                 call == CreateInstanceCall(IntoExtensionSet(required))
             IN  [ret |-> IF native_ok THEN Ok(XrInstance(backend))
                          ELSE Err(NativeError("RuntimeFailure")),
                  native |-> <<EnumerateCall, call>>]

\* GraphicsBackend::available_backends: the backends, in the order of
\* GraphicsBackend::ALL, that are available with these extensions.
RECURSIVE GraphicsBackend_available_backends(_, _)
GraphicsBackend_available_backends(exts, from) ==
    IF from > NumBackends THEN <<>>
    ELSE (IF is_available(from, exts) THEN <<from>> ELSE <<>>)
         \o GraphicsBackend_available_backends(exts, from + 1)

available_backends_unfiltered(runtime_exts, enum_ok) ==
    LET enumerated == enumerate_extensions(runtime_exts, enum_ok)
    IN  IF ~enumerated.ok
        THEN [ret |-> enumerated, native |-> <<EnumerateCall>>]
        ELSE [ret |-> Ok(GraphicsBackend_available_backends(Exts, 1)),
              native |-> <<EnumerateCall>>]

\* XrEntry::available_backends
available_backends(runtime_exts, enum_ok) ==
    LET enumerated == enumerate_extensions(runtime_exts, enum_ok)
    IN  IF ~enumerated.ok
        THEN [ret |-> enumerated, native |-> <<EnumerateCall>>]
        ELSE [ret |-> Ok(GraphicsBackend_available_backends(enumerated.val, 1)),
              native |-> <<EnumerateCall>>]

NoThreads == [t \in Threads |-> [pc |-> "idle", op |-> "none"]]
Handles == {"stream", "swapchain"}
NoLocks == [h \in Handles |-> 0]
NoPoison == [h \in Handles |-> FALSE]

InitEntry ==
    /\ available_exts \in SUBSET Exts
    /\ instance = None
    /\ infos = {}
    /\ session = None
    /\ stream = None
    /\ swapchain = None
    /\ mutex = NoLocks
    /\ poisoned = NoPoison
    /\ thr = NoThreads
    /\ acquired_by = <<>>
    /\ started = FALSE
    /\ history = <<>>
    /\ last = NoCall

\* The application calls create_instance, asking for one of the extension
\* sets in `requests`, and keeps the instance it gets.
CreateInstanceAsking(requests) ==
    \E exts \in requests, backend \in Backends, enum_ok, native_ok \in BOOLEAN :
        \E out \in {create_instance(available_exts, exts, backend, enum_ok, native_ok)} :
            /\ instance' = IF out.ret.ok THEN out.ret.val ELSE instance
            /\ last' = [op |-> "create_instance", exts |-> exts,
                        backend |-> backend, enum_ok |-> enum_ok,
                        native_ok |-> native_ok,
                        ret |-> out.ret, native |-> out.native]
            /\ UNCHANGED <<available_exts, infos, session, stream, swapchain,
                           mutex, poisoned, thr, acquired_by,
                           started, history>>

CreateInstance == CreateInstanceAsking(SUBSET Exts)

\* The application asks which backends it could create an instance for.
AvailableBackends ==
    \E enum_ok \in BOOLEAN :
        \E out \in {available_backends(available_exts, enum_ok)} :
            /\ last' = [op |-> "available_backends", enum_ok |-> enum_ok,
                        ret |-> out.ret, native |-> out.native]
            /\ UNCHANGED <<available_exts, instance, infos, session, stream,
                           swapchain, mutex, poisoned, thr, acquired_by,
                           started, history>>

NextEntry == CreateInstance \/ AvailableBackends

Spec == InitEntry /\ [][NextEntry]_vars

----------------------------------------------------------------------------
(* XrInstance, XrSession *)

\* XrSessionGraphicsInfo(GraphicsWrap<Self>): backend-specific session
\* creation parameters behind the tag of the backend that produced them.
XrSessionGraphicsInfo(tag) == [backend |-> tag]

\* XrSession(openxr::Session<AnyGraphics>, GraphicsWrap<Self>), built by
\* From<openxr::Session<G>>: tagged G.
XrSession(api) == [backend |-> api]

\* XrFrameStream(GraphicsWrap<Arc<Mutex<openxr::FrameStream<G>>>>): the tag
\* and, behind the mutex, the native frame stream with its frame state.
XrFrameStream(api) == [backend |-> api, frame |-> "Idle"]

\* XrSwapchain(GraphicsWrap<Arc<Mutex<openxr::Swapchain<G>>>>): the tag and,
\* behind the mutex, the native image ring: how many images are acquired and
\* not released, whether the oldest of them has been waited on, and the
\* index of the image the next acquire hands out.
XrSwapchain(api) ==
    [backend |-> api, acquired |-> 0, waited |-> FALSE, next |-> 0]

init_graphics_first_backend(self, init_ok) ==
    LET api == 1
        call == [fn |-> "Api::init_graphics", api |-> api]
    IN  [ret |-> IF init_ok THEN Ok(XrSessionGraphicsInfo(api))
                 ELSE Err(NativeError("InitGraphicsFailure")),
         native |-> <<call>>]

\* XrInstance::init_graphics: dispatch on self.1, run that backend's
\* initializer, wrap the session info with the same Api.
init_graphics(self, init_ok) ==
    LET api == self.backend
        call == [fn |-> "Api::init_graphics", api |-> api]
    IN  [ret |-> IF init_ok THEN Ok(XrSessionGraphicsInfo(api))
                 ELSE Err(NativeError("InitGraphicsFailure")),
         native |-> <<call>>]

mismatch_error_swapped(self, info) ==
    GraphicsBackendMismatch("XrSessionGraphicsInfo",
                            graphics_name(self.backend),
                            graphics_name(info.backend))

\* The error create_session builds when the tags differ.
mismatch_error(self, info) ==
    GraphicsBackendMismatch("XrSessionGraphicsInfo",
                            graphics_name(info.backend),
                            graphics_name(self.backend))

CreateSessionCall(api) == [fn |-> "xrCreateSession", api |-> api]

create_session_unchecked(self, info, native_ok) ==
    LET api == info.backend
    IN  [ret |-> IF native_ok
                 THEN Ok([session |-> XrSession(api),
                          frame_waiter |-> "XrFrameWaiter",
                          frame_stream |-> XrFrameStream(api)])
                 ELSE Err(NativeError("RuntimeFailure")),
         native |-> <<CreateSessionCall(api)>>]

\* XrInstance::create_session: the tag check, then the dispatch on info.0
\* to the native session creation.
create_session(self, info, native_ok) ==
    IF ~using_graphics_of_val(info.backend, self.backend)
    THEN [ret |-> Err(mismatch_error(self, info)), native |-> <<>>]
    ELSE LET api == info.backend
         IN  [ret |-> IF native_ok
                      THEN Ok([session |-> XrSession(api),
                               frame_waiter |-> "XrFrameWaiter",
                               frame_stream |-> XrFrameStream(api)])
                      ELSE Err(NativeError("RuntimeFailure")),
              native |-> <<CreateSessionCall(api)>>]

create_swapchain_first_backend(self, convert_ok, native_ok) ==
    LET api == 1
    IN  IF ~convert_ok
        THEN [ret |-> Err([kind |-> "Conversion"]), native |-> <<>>]
        ELSE [ret |-> IF native_ok THEN Ok(XrSwapchain(api))
                      ELSE Err(NativeError("RuntimeFailure")),
              native |-> <<[fn |-> "xrCreateSwapchain", api |-> api]>>]

\* XrSession::create_swapchain: dispatch on self.1, convert the create info,
\* create the native swapchain, wrap it with the same Api.
create_swapchain(self, convert_ok, native_ok) ==
    LET api == self.backend
    IN  IF ~convert_ok
        THEN [ret |-> Err([kind |-> "Conversion"]), native |-> <<>>]
        ELSE [ret |-> IF native_ok THEN Ok(XrSwapchain(api))
                      ELSE Err(NativeError("RuntimeFailure")),
              native |-> <<[fn |-> "xrCreateSwapchain", api |-> api]>>]

NativeFormats == 1..NumFormats

\* What the native session can answer when asked for its swapchain formats:
\* some of the formats, each once, in its order of preference.
FormatLists ==
    {q \in UNION {[1..n -> NativeFormats] : n \in 0..NumFormats} :
        \A i, j \in DOMAIN q : i # j => q[i] # q[j]}

Some(v) == [some |-> v]

\* Api::to_wgpu_format: the engine's format for a native format of this
\* backend, if it has one.
to_wgpu_format(api, format) ==
    IF (api + format) % 2 = 0 THEN Some([wgpu |-> format]) ELSE None

\* Iterator::filter_map(Api::to_wgpu_format).collect()
RECURSIVE filter_map(_, _)
filter_map(api, formats) ==
    IF formats = <<>> THEN <<>>
    ELSE LET converted == to_wgpu_format(api, Head(formats))
         IN  (IF converted = None THEN <<>> ELSE <<converted.some>>)
             \o filter_map(api, Tail(formats))

EnumerateFormatsCall(api) ==
    [fn |-> "xrEnumerateSwapchainFormats", api |-> api]

enumerate_swapchain_formats_strict(self, native_formats, native_ok) ==
    LET api == self.backend
        native == IF native_ok THEN Ok(native_formats)
                  ELSE Err("RuntimeFailure")
    IN  IF ~native.ok
        THEN [ret |-> Try(native), native |-> <<EnumerateFormatsCall(api)>>]
        ELSE IF \E i \in DOMAIN native.val :
                    to_wgpu_format(api, native.val[i]) = None
        THEN [ret |-> Err([kind |-> "Conversion"]),
              native |-> <<EnumerateFormatsCall(api)>>]
        ELSE [ret |-> Ok(filter_map(api, native.val)),
              native |-> <<EnumerateFormatsCall(api)>>]

\* XrSession::enumerate_swapchain_formats: dispatch on self.1, ask the
\* native session, convert what can be converted.
enumerate_swapchain_formats(self, native_formats, native_ok) ==
    LET api == self.backend
        native == IF native_ok THEN Ok(native_formats)
                  ELSE Err("RuntimeFailure")
    IN  IF ~native.ok
        THEN [ret |-> Try(native), native |-> <<EnumerateFormatsCall(api)>>]
        ELSE [ret |-> Ok(filter_map(api, native.val)),
              native |-> <<EnumerateFormatsCall(api)>>]

\* The runtime offers every extension; the application creates instances
\* (keeping the latest), and keeps every session graphics info it was given,
\* also those of instances it has replaced.
InitSession ==
    /\ available_exts = Exts
    /\ instance = None
    /\ infos = {}
    /\ session = None
    /\ stream = None
    /\ swapchain = None
    /\ mutex = NoLocks
    /\ poisoned = NoPoison
    /\ thr = NoThreads
    /\ acquired_by = <<>>
    /\ started = FALSE
    /\ history = <<>>
    /\ last = NoCall

\* The application creates an instance for some backend, asking for no
\* extensions of its own.
CreateInstanceForBackend == CreateInstanceAsking({{}})

InitGraphics ==
    /\ instance # None
    /\ \E init_ok \in BOOLEAN :
        \E out \in {init_graphics(instance, init_ok)} :
            /\ infos' = IF out.ret.ok THEN infos \cup {out.ret.val} ELSE infos
            /\ last' = [op |-> "init_graphics", self |-> instance,
                        ret |-> out.ret, native |-> out.native]
            /\ UNCHANGED <<available_exts, instance, session, stream,
                           swapchain, mutex, poisoned, thr, acquired_by,
                           started, history>>

CreateSession ==
    /\ instance # None
    /\ \E info \in infos, native_ok \in BOOLEAN :
        \E out \in {create_session(instance, info, native_ok)} :
            /\ session' = IF out.ret.ok THEN out.ret.val.session ELSE session
            /\ stream' = IF out.ret.ok THEN out.ret.val.frame_stream ELSE stream
            /\ last' = [op |-> "create_session", self |-> instance,
                        info |-> info, native_ok |-> native_ok,
                        ret |-> out.ret, native |-> out.native]
            /\ UNCHANGED <<available_exts, instance, infos, swapchain,
                           mutex, poisoned, thr, acquired_by,
                           started, history>>

CreateSwapchain ==
    /\ session # None
    /\ \E convert_ok, native_ok \in BOOLEAN :
        \E out \in {create_swapchain(session, convert_ok, native_ok)} :
            /\ swapchain' = IF out.ret.ok THEN out.ret.val ELSE swapchain
            /\ last' = [op |-> "create_swapchain", self |-> session,
                        ret |-> out.ret, native |-> out.native]
            /\ UNCHANGED <<available_exts, instance, infos, session, stream,
                           mutex, poisoned, thr, acquired_by,
                           started, history>>

EnumerateSwapchainFormats ==
    /\ session # None
    /\ \E native_formats \in FormatLists, native_ok \in BOOLEAN :
        \E out \in {enumerate_swapchain_formats(session, native_formats,
                                                native_ok)} :
            /\ last' = [op |-> "enumerate_swapchain_formats",
                        self |-> session, native_formats |-> native_formats,
                        native_ok |-> native_ok,
                        ret |-> out.ret, native |-> out.native]
            /\ UNCHANGED <<available_exts, instance, infos, session, stream,
                           swapchain, mutex, poisoned, thr, acquired_by,
                           started, history>>

NextSession ==
    \/ CreateInstanceForBackend
    \/ InitGraphics
    \/ CreateSession
    \/ CreateSwapchain
    \/ EnumerateSwapchainFormats

SpecSession == InitSession /\ [][NextSession]_vars

----------------------------------------------------------------------------
(* Mutex<T> behind the Arc every clone of a handle shares *)

lock_unguarded(h, t) == TRUE

lock_per_clone(h, t) == mutex[h] # t

\* Mutex::lock returns to thread t once no thread holds the mutex of h.
lock(h, t) == mutex[h] = 0

\* LockResult::unwrap hands out the guard unless the mutex is poisoned.
unwrap(h) == ~poisoned[h]

unlock_leaked(h) == mutex

\* The guard a call took is dropped when the call returns.
unlock(h) == [mutex EXCEPT ![h] = 0]

Locked(t, h, op) == thr[t] = [pc |-> "locked", op |-> op] /\ mutex[h] = t

\* Thread t enters call `op` on handle h: it takes the handle's mutex.
\* (`last` describes a call only until the next call is entered.)
Enter(t, h, op) ==
    /\ thr[t].pc = "idle"
    /\ lock(h, t)
    /\ unwrap(h)
    /\ mutex' = [mutex EXCEPT ![h] = t]
    /\ thr' = [thr EXCEPT ![t] = [pc |-> "locked", op |-> op]]
    /\ last' = NoCall
    /\ UNCHANGED poisoned

Leave(t, h) ==
    /\ mutex' = unlock(h)
    /\ thr' = [thr EXCEPT ![t] = [pc |-> "idle", op |-> "none"]]
    /\ UNCHANGED poisoned

----------------------------------------------------------------------------
(* The native frame stream (openxr::FrameStream) *)

\* xrBeginFrame: refused inside a begin/end bracket; otherwise opens one
\* unless the runtime fails. Errors are the runtime's own result codes.
native_begin(frame, env_ok) ==
    IF frame = "Began"
    THEN [ret |-> Err("CallOrderInvalid"), frame |-> frame]
    ELSE IF ~env_ok
    THEN [ret |-> Err("RuntimeFailure"), frame |-> frame]
    ELSE [ret |-> Ok("unit"), frame |-> "Began"]

\* xrEndFrame: refused outside a bracket; otherwise closes it unless the
\* runtime rejects the submission (e.g. an invalid display time).
native_end(frame, env_ok) ==
    IF frame = "Idle"
    THEN [ret |-> Err("CallOrderInvalid"), frame |-> frame]
    ELSE IF ~env_ok
    THEN [ret |-> Err("RuntimeFailure"), frame |-> frame]
    ELSE [ret |-> Ok("unit"), frame |-> "Idle"]

----------------------------------------------------------------------------
(* XrFrameStream *)

\* A composition layer: its native header and the tag of the XrSwapchain it
\* reports, 0 when it reports none (CompositionLayer::swapchain is None).
NoSwapchain == 0
Layer(header, tag) == [header |-> header, swapchain |-> tag]

\* The layer slices one end call may receive: up to MaxLayers layers, the
\* i-th carrying header i, each with no swapchain or one of any backend.
LayerLists ==
    UNION {{[i \in 1..n |-> Layer(i, tags[i])] :
                tags \in [1..n -> {NoSwapchain} \cup Backends]} :
           n \in 0..MaxLayers}

begin_swallow(self, env_ok) ==
    LET r == native_begin(self.frame, env_ok)
    IN  [ret |-> Ok("unit"),
         stream |-> [self EXCEPT !.frame = r.frame],
         native |-> <<[fn |-> "xrBeginFrame", ret |-> r.ret]>>,
         logs |-> <<>>]

\* XrFrameStream::begin, from the lock on: the native begin, its result
\* returned as it is.
begin(self, env_ok) ==
    LET r == native_begin(self.frame, env_ok)
    IN  [ret |-> r.ret,
         stream |-> [self EXCEPT !.frame = r.frame],
         native |-> <<[fn |-> "xrBeginFrame", ret |-> r.ret]>>,
         logs |-> <<>>]

\* The test of end's loop: the layer reports a swapchain and that swapchain
\* is not of the stream's backend.
layer_excluded(api, layer) ==
    /\ layer.swapchain # NoSwapchain
    /\ ~using_graphics(layer.swapchain, api)

\* The loop of end from layer i on: an excluded layer is logged with its
\* (0-based) index and skipped, any other layer's header is pushed.
RECURSIVE filter_layers(_, _, _, _)
filter_layers(api, layers, i, acc) ==
    IF i > Len(layers) THEN acc
    ELSE filter_layers(api, layers, i + 1,
            IF layer_excluded(api, layers[i])
            THEN [acc EXCEPT !.logs = Append(@,
                     [level |-> "error", index |-> i - 1,
                      actual |-> graphics_name(layers[i].swapchain),
                      expected |-> graphics_name(api)])]
            ELSE [acc EXCEPT !.new_layers = Append(@, layers[i].header)])

end_fail_on_mismatch(self, layers, env_ok) ==
    LET api == self.backend
        acc == filter_layers(api, layers, 1, [new_layers |-> <<>>, logs |-> <<>>])
        r == native_end(self.frame, env_ok)
    IN  IF acc.logs # <<>>
        THEN [ret |-> Err(mismatch_error(self, [backend |-> api])),
              stream |-> self, native |-> <<>>, logs |-> acc.logs]
        ELSE [ret |-> Try(r.ret),
              stream |-> [self EXCEPT !.frame = r.frame],
              native |-> <<[fn |-> "xrEndFrame", layers |-> acc.new_layers,
                            ret |-> r.ret]>>,
              logs |-> acc.logs]

end_skip_empty(self, layers, env_ok) ==
    LET api == self.backend
        acc == filter_layers(api, layers, 1, [new_layers |-> <<>>, logs |-> <<>>])
        r == native_end(self.frame, env_ok)
    IN  IF acc.new_layers = <<>> /\ layers # <<>>
        THEN [ret |-> Ok("unit"), stream |-> self, native |-> <<>>,
              logs |-> acc.logs]
        ELSE [ret |-> Try(r.ret),
              stream |-> [self EXCEPT !.frame = r.frame],
              native |-> <<[fn |-> "xrEndFrame", layers |-> acc.new_layers,
                            ret |-> r.ret]>>,
              logs |-> acc.logs]

\* XrFrameStream::end, from the lock on: the loop over the layers, then the
\* native end with the layers that were kept; the native result is returned.
end(self, layers, env_ok) ==
    LET api == self.backend
        acc == filter_layers(api, layers, 1, [new_layers |-> <<>>, logs |-> <<>>])
        r == native_end(self.frame, env_ok)
    IN  [ret |-> Try(r.ret),
         stream |-> [self EXCEPT !.frame = r.frame],
         native |-> <<[fn |-> "xrEndFrame", layers |-> acc.new_layers,
                       ret |-> r.ret]>>,
         logs |-> acc.logs]

\* A session of some backend has been created; its frame stream is idle.
InitFrame ==
    /\ available_exts = Exts
    /\ \E b \in Backends :
         /\ instance = XrInstance(b)
         /\ infos = {XrSessionGraphicsInfo(b)}
         /\ session = XrSession(b)
         /\ stream = XrFrameStream(b)
    /\ swapchain = None
    /\ mutex = NoLocks
    /\ poisoned = NoPoison
    /\ thr = NoThreads
    /\ acquired_by = <<>>
    /\ started = FALSE
    /\ history = <<>>
    /\ last = NoCall

BeginEnter(t) ==
    /\ Enter(t, "stream", "begin")
    /\ UNCHANGED <<available_exts, instance, infos, session, stream,
                   swapchain, acquired_by, started, history>>

BeginReturn(t) ==
    /\ Locked(t, "stream", "begin")
    /\ \E env_ok \in BOOLEAN :
        \E out \in {begin(stream, env_ok)} :
            /\ stream' = out.stream
            /\ last' = [op |-> "begin", thread |-> t, self |-> stream,
                        ret |-> out.ret, native |-> out.native,
                        logs |-> out.logs]
    /\ Leave(t, "stream")
    /\ UNCHANGED <<available_exts, instance, infos, session, swapchain,
                   acquired_by, started, history>>

EndEnter(t) ==
    /\ Enter(t, "stream", "end")
    /\ UNCHANGED <<available_exts, instance, infos, session, stream,
                   swapchain, acquired_by, started, history>>

\* end returns, having been given one of the layer slices in `lists`.
EndReturnWith(t, lists) ==
    /\ Locked(t, "stream", "end")
    /\ \E layers \in lists, env_ok \in BOOLEAN :
        \E out \in {end(stream, layers, env_ok)} :
            /\ stream' = out.stream
            /\ last' = [op |-> "end", thread |-> t, self |-> stream,
                        layers |-> layers, ret |-> out.ret,
                        native |-> out.native, logs |-> out.logs]
    /\ Leave(t, "stream")
    /\ UNCHANGED <<available_exts, instance, infos, session, swapchain,
                   acquired_by, started, history>>

EndReturn(t) == EndReturnWith(t, LayerLists)

NextFrame ==
    \E t \in Threads :
        BeginEnter(t) \/ BeginReturn(t) \/ EndEnter(t) \/ EndReturn(t)

SpecFrame == InitFrame /\ [][NextFrame]_vars

----------------------------------------------------------------------------
(* The native swapchain (openxr::Swapchain) *)

\* xrAcquireSwapchainImage: hands out the next image of the ring; refused
\* when every image is acquired.
native_acquire_image(sc, env_ok) ==
    IF sc.acquired = RingSize
    THEN [ret |-> Err("CallOrderInvalid"), sc |-> sc]
    ELSE IF ~env_ok
    THEN [ret |-> Err("RuntimeFailure"), sc |-> sc]
    ELSE [ret |-> Ok(sc.next),
          sc |-> [sc EXCEPT !.acquired = @ + 1,
                            !.next = (@ + 1) % RingSize]]

\* xrWaitSwapchainImage: waits for the oldest acquired image; refused when
\* no image is acquired or that image has been waited on already; fails
\* when the image is not ready within the timeout.
native_wait_image(sc, env_ok) ==
    IF sc.acquired = 0 \/ sc.waited
    THEN [ret |-> Err("CallOrderInvalid"), sc |-> sc]
    ELSE IF ~env_ok
    THEN [ret |-> Err("Timeout"), sc |-> sc]
    ELSE [ret |-> Ok("unit"), sc |-> [sc EXCEPT !.waited = TRUE]]

\* xrReleaseSwapchainImage: gives the oldest acquired image back; refused
\* when no image is acquired or that image has not been waited on.
native_release_image(sc, env_ok) ==
    IF sc.acquired = 0 \/ ~sc.waited
    THEN [ret |-> Err("CallOrderInvalid"), sc |-> sc]
    ELSE IF ~env_ok
    THEN [ret |-> Err("RuntimeFailure"), sc |-> sc]
    ELSE [ret |-> Ok("unit"),
          sc |-> [sc EXCEPT !.acquired = @ - 1, !.waited = FALSE]]

\* xrEnumerateSwapchainImages: the images of the ring, in index order,
\* unless the runtime fails; the ring is left as it is.
native_enumerate_images(sc, env_ok) ==
    IF ~env_ok
    THEN [ret |-> Err("RuntimeFailure"), sc |-> sc]
    ELSE [ret |-> Ok([i \in 1..RingSize |-> [image |-> i - 1]]), sc |-> sc]

\* Api::to_wgpu_img: the engine texture over a native image, unless the
\* conversion fails (`convert_ok` says whether this one succeeds).
to_wgpu_img(api, image, convert_ok) ==
    IF convert_ok THEN Ok([texture |-> image.image, api |-> api])
    ELSE Err([kind |-> "Conversion", image |-> image.image])

----------------------------------------------------------------------------
(* XrSwapchain *)

\* XrSwapchainImages(Arc<Vec<wgpu::Texture>>)
XrSwapchainImages(images) == [images |-> images]

\* The loop of enumerate_images from native image i on: convert and push,
\* leave with the error of the first conversion that fails (the one of
\* image number fail_at, if any).
RECURSIVE push_images(_, _, _, _, _)
push_images(api, native_images, fail_at, i, images) ==
    IF i > Len(native_images) THEN Ok(images)
    ELSE LET converted == to_wgpu_img(api, native_images[i], i # fail_at)
         IN  IF ~converted.ok THEN converted
             ELSE push_images(api, native_images, fail_at, i + 1,
                              Append(images, converted.val))

RECURSIVE push_images_skipping(_, _, _, _, _)
push_images_skipping(api, native_images, fail_at, i, images) ==
    IF i > Len(native_images) THEN Ok(images)
    ELSE LET converted == to_wgpu_img(api, native_images[i], i # fail_at)
         IN  push_images_skipping(api, native_images, fail_at, i + 1,
                 IF converted.ok THEN Append(images, converted.val)
                 ELSE images)

enumerate_images_partial(self, env_ok, fail_at) ==
    LET r == native_enumerate_images(self, env_ok)
        call == [fn |-> "xrEnumerateSwapchainImages", ret |-> r.ret]
    IN  IF ~r.ret.ok
        THEN [ret |-> Try(r.ret), swapchain |-> r.sc, native |-> <<call>>]
        ELSE LET images == push_images_skipping(self.backend, r.ret.val,
                                                fail_at, 1, <<>>)
             IN  [ret |-> Ok(XrSwapchainImages(images.val)),
                  swapchain |-> r.sc, native |-> <<call>>]

\* XrSwapchain::enumerate_images, from the lock on.
enumerate_images(self, env_ok, fail_at) ==
    LET r == native_enumerate_images(self, env_ok)
        call == [fn |-> "xrEnumerateSwapchainImages", ret |-> r.ret]
    IN  IF ~r.ret.ok
        THEN [ret |-> Try(r.ret), swapchain |-> r.sc, native |-> <<call>>]
        ELSE LET images == push_images(self.backend, r.ret.val, fail_at,
                                       1, <<>>)
             IN  [ret |-> IF images.ok
                          THEN Ok(XrSwapchainImages(images.val))
                          ELSE images,
                  swapchain |-> r.sc, native |-> <<call>>]

acquire_image_retry(self, env_ok) ==
    LET r == native_acquire_image(self, env_ok)
        again == native_acquire_image(r.sc, TRUE)
    IN  IF r.ret.ok
        THEN [ret |-> Try(r.ret), swapchain |-> r.sc,
              native |-> <<[fn |-> "xrAcquireSwapchainImage", ret |-> r.ret]>>]
        ELSE [ret |-> Try(again.ret), swapchain |-> again.sc,
              native |-> <<[fn |-> "xrAcquireSwapchainImage", ret |-> r.ret],
                           [fn |-> "xrAcquireSwapchainImage",
                            ret |-> again.ret]>>]

\* XrSwapchain::acquire_image, from the lock on.
acquire_image(self, env_ok) ==
    LET r == native_acquire_image(self, env_ok)
    IN  [ret |-> Try(r.ret), swapchain |-> r.sc,
         native |-> <<[fn |-> "xrAcquireSwapchainImage", ret |-> r.ret]>>]

wait_image_swallow(self, env_ok) ==
    LET r == native_wait_image(self, env_ok)
    IN  [ret |-> Ok("unit"), swapchain |-> r.sc,
         native |-> <<[fn |-> "xrWaitSwapchainImage", ret |-> r.ret]>>]

\* XrSwapchain::wait_image, from the lock on.
wait_image(self, env_ok) ==
    LET r == native_wait_image(self, env_ok)
    IN  [ret |-> Try(r.ret), swapchain |-> r.sc,
         native |-> <<[fn |-> "xrWaitSwapchainImage", ret |-> r.ret]>>]

\* XrSwapchain::release_image, from the lock on.
release_image(self, env_ok) ==
    LET r == native_release_image(self, env_ok)
    IN  [ret |-> Try(r.ret), swapchain |-> r.sc,
         native |-> <<[fn |-> "xrReleaseSwapchainImage", ret |-> r.ret]>>]

\* A session of some backend has created a swapchain; no image is acquired.
InitSwap ==
    /\ available_exts = Exts
    /\ \E b \in Backends :
         /\ instance = XrInstance(b)
         /\ infos = {XrSessionGraphicsInfo(b)}
         /\ session = XrSession(b)
         /\ stream = XrFrameStream(b)
         /\ swapchain = XrSwapchain(b)
    /\ mutex = NoLocks
    /\ poisoned = NoPoison
    /\ thr = NoThreads
    /\ acquired_by = <<>>
    /\ started = FALSE
    /\ history = <<>>
    /\ last = NoCall

SwapEnter(t, op) ==
    /\ Enter(t, "swapchain", op)
    /\ UNCHANGED <<available_exts, instance, infos, session, stream,
                   swapchain, acquired_by, started, history>>

\* What a returning swapchain call leaves behind.
SwapReturn(t, op, out, matched) ==
    /\ swapchain' = out.swapchain
    /\ acquired_by' = matched
    /\ last' = [op |-> op, thread |-> t, self |-> swapchain,
                unmatched |-> acquired_by, ret |-> out.ret,
                native |-> out.native]
    /\ Leave(t, "swapchain")
    /\ UNCHANGED <<available_exts, instance, infos, session, stream,
                   started, history>>

AcquireEnter(t) == SwapEnter(t, "acquire_image")

\* acquire_image returns to thread t; an image it got is booked to `who`.
AcquireReturnFor(t, who) ==
    /\ Locked(t, "swapchain", "acquire_image")
    /\ \E env_ok \in BOOLEAN :
        \E out \in {acquire_image(swapchain, env_ok)} :
            SwapReturn(t, "acquire_image", out,
                IF out.ret.ok THEN Append(acquired_by, who) ELSE acquired_by)

AcquireReturn(t) == AcquireReturnFor(t, t)

WaitEnter(t) == SwapEnter(t, "wait_image")

WaitReturn(t) ==
    /\ Locked(t, "swapchain", "wait_image")
    /\ \E env_ok \in BOOLEAN :
        \E out \in {wait_image(swapchain, env_ok)} :
            SwapReturn(t, "wait_image", out, acquired_by)

ReleaseEnter(t) == SwapEnter(t, "release_image")

ReleaseReturn(t) ==
    /\ Locked(t, "swapchain", "release_image")
    /\ \E env_ok \in BOOLEAN :
        \E out \in {release_image(swapchain, env_ok)} :
            SwapReturn(t, "release_image", out,
                IF out.ret.ok /\ acquired_by # <<>>
                THEN Tail(acquired_by) ELSE acquired_by)

EnumerateImagesEnter(t) == SwapEnter(t, "enumerate_images")

\* The native enumeration succeeds or not; at most one conversion fails.
EnumerateImagesReturn(t) ==
    /\ Locked(t, "swapchain", "enumerate_images")
    /\ \E env_ok \in BOOLEAN, fail_at \in 0..RingSize :
        \E out \in {enumerate_images(swapchain, env_ok, fail_at)} :
            /\ swapchain' = out.swapchain
            /\ last' = [op |-> "enumerate_images", thread |-> t,
                        self |-> swapchain, unmatched |-> acquired_by,
                        env_ok |-> env_ok, fail_at |-> fail_at,
                        ret |-> out.ret, native |-> out.native]
            /\ Leave(t, "swapchain")
            /\ UNCHANGED <<available_exts, instance, infos, session, stream,
                           acquired_by, started, history>>

NextSwap ==
    \E t \in Threads :
        \/ AcquireEnter(t) \/ AcquireReturn(t)
        \/ WaitEnter(t) \/ WaitReturn(t)
        \/ ReleaseEnter(t) \/ ReleaseReturn(t)
        \/ EnumerateImagesEnter(t) \/ EnumerateImagesReturn(t)

SpecSwap == InitSwap /\ [][NextSwap]_vars

----------------------------------------------------------------------------
(* XrFrameStream and XrSwapchain together: every guarded call, from threads *)
(* sharing clones of both handles, with calls that wait for the lock and    *)
(* calls that panic under it                                                *)

StreamOps == {"begin", "end"}
SwapchainOps ==
    {"acquire_image", "wait_image", "release_image", "enumerate_images"}

\* The handle a call locks: the one it is called on.
HandleOf(op) == IF op \in StreamOps THEN "stream" ELSE "swapchain"

\* The calls that run code of their caller or of the graphics backend
\* under the lock: end asks each layer for its swapchain and header,
\* enumerate_images converts each image.
CallsOut == {"end", "enumerate_images"}

\* The layer slices end receives here: at most one layer.
ShortLayerLists == {layers \in LayerLists : Len(layers) <= 1}

\* Thread t calls `op`; the call starts by asking for the handle's mutex.
Request(t, op) ==
    /\ thr[t].pc = "idle"
    /\ thr' = [thr EXCEPT ![t] = [pc |-> "waiting", op |-> op]]
    /\ last' = NoCall
    /\ UNCHANGED <<available_exts, instance, infos, session, stream,
                   swapchain, mutex, poisoned, acquired_by, started,
                   history>>

\* lock() returns the guard to the waiting thread t and unwrap() passes it.
Acquire(t) ==
    /\ thr[t].pc = "waiting"
    /\ lock(HandleOf(thr[t].op), t)
    /\ unwrap(HandleOf(thr[t].op))
    /\ mutex' = [mutex EXCEPT ![HandleOf(thr[t].op)] = t]
    /\ thr' = [thr EXCEPT ![t].pc = "locked"]
    /\ last' = NoCall
    /\ UNCHANGED <<available_exts, instance, infos, session, stream,
                   swapchain, poisoned, acquired_by, started, history>>

\* lock() returns to the waiting thread t with the guard inside a
\* PoisonError; unwrap() panics and the guard is dropped with it.
AcquirePoisoned(t) ==
    /\ thr[t].pc = "waiting"
    /\ lock(HandleOf(thr[t].op), t)
    /\ ~unwrap(HandleOf(thr[t].op))
    /\ thr' = [thr EXCEPT ![t] = [pc |-> "idle", op |-> "none"]]
    /\ last' = [op |-> "panic", in |-> thr[t].op, thread |-> t,
                at |-> "lock().unwrap()"]
    /\ UNCHANGED <<available_exts, instance, infos, session, stream,
                   swapchain, mutex, poisoned, acquired_by, started,
                   history>>

\* Code called under the lock panics: the guard is dropped while the
\* thread unwinds, which poisons the mutex. Nothing native has changed: end
\* has not reached the native end, the native enumeration changes nothing.
PanicUnderLock(t) ==
    /\ thr[t].pc = "locked"
    /\ thr[t].op \in CallsOut
    /\ mutex[HandleOf(thr[t].op)] = t
    /\ mutex' = unlock(HandleOf(thr[t].op))
    /\ poisoned' = [poisoned EXCEPT ![HandleOf(thr[t].op)] = TRUE]
    /\ thr' = [thr EXCEPT ![t] = [pc |-> "idle", op |-> "none"]]
    /\ last' = [op |-> "panic", in |-> thr[t].op, thread |-> t,
                at |-> "under the lock"]
    /\ UNCHANGED <<available_exts, instance, infos, session, stream,
                   swapchain, acquired_by, started, history>>

\* Here the images are not booked to the thread that acquired them.
Anyone == 0

\* Thread t's call returns.
Return(t) ==
    \/ BeginReturn(t)
    \/ EndReturnWith(t, ShortLayerLists)
    \/ AcquireReturnFor(t, Anyone)
    \/ WaitReturn(t)
    \/ ReleaseReturn(t)
    \/ EnumerateImagesReturn(t)

\* Thread t calls `op` on a handle whose mutex is free but poisoned:
\* lock() hands the guard over inside a PoisonError, unwrap() panics and
\* the guard is dropped with it.
EnterPoisoned(t, op) ==
    /\ thr[t].pc = "idle"
    /\ lock(HandleOf(op), t)
    /\ ~unwrap(HandleOf(op))
    /\ last' = [op |-> "panic", in |-> op, thread |-> t,
                at |-> "lock().unwrap()"]
    /\ UNCHANGED <<available_exts, instance, infos, session, stream,
                   swapchain, mutex, poisoned, thr, acquired_by, started,
                   history>>

\* Before the threads make their first guarded call the application
\* creates another instance, or another session on the instance it has,
\* next to the session whose handles the threads share; the new objects
\* are not followed.
BeforeGuardedCalls ==
    /\ thr = NoThreads
    /\ last.op \in {"none", "create_instance", "create_session"}

CreateInstanceAside ==
    /\ BeforeGuardedCalls
    /\ \E backend \in Backends, enum_ok, native_ok \in BOOLEAN :
        \E out \in {create_instance(available_exts, {}, backend, enum_ok,
                                     native_ok)} :
            last' = [op |-> "create_instance", exts |-> {},
                     backend |-> backend, enum_ok |-> enum_ok,
                     native_ok |-> native_ok,
                     ret |-> out.ret, native |-> out.native]
    /\ UNCHANGED <<available_exts, instance, infos, session, stream,
                   swapchain, mutex, poisoned, thr, acquired_by, started,
                   history>>

CreateSessionAside ==
    /\ BeforeGuardedCalls
    /\ \E tag \in Backends, native_ok \in BOOLEAN :
        \E out \in {create_session(instance, XrSessionGraphicsInfo(tag),
                                    native_ok)} :
            last' = [op |-> "create_session", self |-> instance,
                     info |-> XrSessionGraphicsInfo(tag),
                     native_ok |-> native_ok,
                     ret |-> out.ret, native |-> out.native]
    /\ UNCHANGED <<available_exts, instance, infos, session, stream,
                   swapchain, mutex, poisoned, thr, acquired_by, started,
                   history>>

\* The frame stream and a swapchain of one session, of the first backend
\* (the guarded calls dispatch on the tag and then treat every backend
\* alike; end is still handed layers of every backend).
InitShared == InitSwap /\ instance = XrInstance(1)

NextShared ==
    \E t \in Threads :
        \/ BeginEnter(t) \/ EndEnter(t)
        \/ AcquireEnter(t) \/ WaitEnter(t) \/ ReleaseEnter(t)
        \/ EnumerateImagesEnter(t)
        \/ \E op \in StreamOps \cup SwapchainOps : EnterPoisoned(t, op)
        \/ PanicUnderLock(t)
        \/ Return(t)
        \/ CreateInstanceAside
        \/ CreateSessionAside

SpecShared == InitShared /\ [][NextShared]_vars

NextWaiting ==
    \E t \in Threads :
        \/ \E op \in StreamOps \cup SwapchainOps : Request(t, op)
        \/ Acquire(t)
        \/ AcquirePoisoned(t)
        \/ PanicUnderLock(t)
        \/ Return(t)

SpecWaiting == InitShared /\ [][NextWaiting]_vars

\* What the threads and std::sync::Mutex give: a call under the lock goes
\* on until it returns or panics; a thread blocked in lock() while the mutex
\* stays free is handed the mutex. The mutex is not fair: nothing is said
\* of a thread that finds the mutex free only now and then.
Fairness ==
    \A t \in Threads :
        /\ WF_vars(Return(t) \/ PanicUnderLock(t))
        /\ WF_vars(Acquire(t) \/ AcquirePoisoned(t))

SpecWaitingFair == SpecWaiting /\ Fairness

----------------------------------------------------------------------------
(* XrSessionStarted(Arc<AtomicBool>) *)

set_or(flag, val) == flag \/ val

\* XrSessionStarted::set: store(val, SeqCst); the flag afterwards.
set(flag, val) == val

\* XrSessionStarted::get: load(SeqCst).
get(flag) == flag

\* No session, no handle: only the flag, which Default leaves false, and
\* the threads holding clones of it.
InitStarted ==
    /\ available_exts = Exts
    /\ instance = None
    /\ infos = {}
    /\ session = None
    /\ stream = None
    /\ swapchain = None
    /\ mutex = NoLocks
    /\ poisoned = NoPoison
    /\ thr = NoThreads
    /\ acquired_by = <<>>
    /\ started = FALSE
    /\ history = <<>>
    /\ last = NoCall

Set(t) ==
    /\ Len(history) < MaxOps
    /\ \E val \in BOOLEAN :
        /\ started' = set(started, val)
        /\ history' = Append(history, [op |-> "set", thread |-> t,
                                        val |-> val])
    /\ UNCHANGED <<available_exts, instance, infos, session, stream,
                   swapchain, mutex, poisoned, thr, acquired_by, last>>

Get(t) ==
    /\ Len(history) < MaxOps
    /\ history' = Append(history, [op |-> "get", thread |-> t,
                                    ret |-> get(started)])
    /\ UNCHANGED <<available_exts, instance, infos, session, stream,
                   swapchain, mutex, poisoned, thr, acquired_by, started,
                   last>>

NextStarted == \E t \in Threads : Set(t) \/ Get(t)

SpecStarted == InitStarted /\ [][NextStarted]_vars

----------------------------------------------------------------------------
(* Claims about XrEntry::create_instance (checked under Spec) *)

CreateInstanceReturned == last.op = "create_instance"

\* The native create-instance calls the last call made.
CreateCalls ==
    {i \in 1..Len(last.native) : last.native[i].fn = "xrCreateInstance"}

\* C3 as stated: for every backend B and enumerated extension set E,
\* create_instance(backend = B) fails with UnavailableBackend(B) when B's
\* required extensions are not a subset of E and succeeds, returning an
\* Instance tagged B, when they are.
C3_AsClaimed ==
    (CreateInstanceReturned /\ last.enum_ok) =>
        IF required_exts(last.backend) \subseteq available_exts
        THEN last.ret.ok /\ last.ret.val.backend = last.backend
        ELSE last.ret = Err(UnavailableBackend(last.backend))

\* C3 amended: with E enumerated, create_instance(backend = B) fails with
\* UnavailableBackend(B) when B's required extensions are not a subset of E;
\* when they are, it makes the native create-instance call and returns an
\* Instance tagged B if that call succeeds and the native error if it fails.
C3_Availability ==
    (CreateInstanceReturned /\ last.enum_ok) =>
        IF required_exts(last.backend) \subseteq available_exts
        THEN /\ CreateCalls # {}
             /\ last.ret.ok <=> last.native_ok
             /\ last.ret.ok => /\ last.ret.val.backend = last.backend
                                /\ instance = last.ret.val
             /\ ~last.ret.ok => last.ret.err.kind = "Native"
        ELSE last.ret = Err(UnavailableBackend(last.backend))

C3_Witness ==
    /\ CreateInstanceReturned
    /\ last.ret.ok
    /\ instance.backend = last.backend
    /\ required_exts(last.backend) \subseteq available_exts
    /\ \E b \in Backends : ~(required_exts(b) \subseteq available_exts)

\* C4: a create_instance that returns an availability error (the extension
\* enumeration failed, or the backend's required extensions are missing)
\* has not made the native create-instance call.
C4_NoNativeBeforeAvailability ==
    (/\ CreateInstanceReturned
     /\ ~last.ret.ok
     /\ (~last.enum_ok \/ last.ret.err.kind = "UnavailableBackend"))
        => CreateCalls = {}

C4_Witness ==
    /\ CreateInstanceReturned
    /\ ~last.ret.ok
    /\ last.ret.err.kind = "UnavailableBackend"
    /\ last.native_ok
    /\ last.native = <<EnumerateCall>>

\* C5: when create_instance passes the availability check, the native
\* create-instance call is made once, with exactly the requested extensions
\* and the backend's mandatory extensions switched on and no others.
C5_ExactUnion ==
    (/\ CreateInstanceReturned
     /\ last.enum_ok
     /\ required_exts(last.backend) \subseteq available_exts)
        => /\ Cardinality(CreateCalls) = 1
           /\ \A i \in CreateCalls : \A e \in Exts :
                  last.native[i].exts[e] <=>
                      (e \in last.exts \/ e \in required_exts(last.backend))

C5_Witness ==
    /\ CreateInstanceReturned
    /\ CreateCalls # {}
    /\ last.exts # {}
    /\ ~(required_exts(last.backend) \subseteq last.exts)
    /\ \E i \in CreateCalls : \E e \in Exts : ~last.native[i].exts[e]

----------------------------------------------------------------------------
(* Claims about XrInstance::create_session (checked under SpecSession) *)

CreateSessionReturned == last.op = "create_session"

TagsDiffer == last.info.backend # last.self.backend

\* C1: create_session on an Instance of backend X with a session graphics
\* info tagged Y # X returns the GraphicsBackendMismatch error, makes no
\* native call, returns no Session, FrameWaiter or FrameStream, and leaves
\* the Instance as it was; a native session-creation call is only ever made
\* with matching tags.
C1_MismatchRejected ==
    CreateSessionReturned =>
        /\ TagsDiffer =>
              /\ ~last.ret.ok
              /\ last.ret.err.kind = "GraphicsBackendMismatch"
              /\ last.native = <<>>
              /\ instance = last.self
        /\ last.native # <<>> => ~TagsDiffer

C1_Witness ==
    /\ CreateSessionReturned
    /\ TagsDiffer
    /\ ~last.ret.ok
    /\ session # None

\* C2: the GraphicsBackendMismatch error of create_session names the
\* Instance's backend X as the expected backend and the info's backend Y as
\* the actual one.
C2_ExpectedActual ==
    (/\ CreateSessionReturned
     /\ ~last.ret.ok
     /\ last.ret.err.kind = "GraphicsBackendMismatch")
        => /\ last.ret.err.expected_backend = graphics_name(last.self.backend)
           /\ last.ret.err.backend = graphics_name(last.info.backend)

C2_Witness ==
    /\ CreateSessionReturned
    /\ ~last.ret.ok
    /\ last.ret.err.kind = "GraphicsBackendMismatch"
    /\ last.ret.err.expected_backend # last.ret.err.backend

----------------------------------------------------------------------------
(* Claims about XrFrameStream (checked under SpecFrame) *)

EndReturned == last.op = "end"

\* The positions of the layers of the last end call that report a swapchain
\* of a backend other than the stream's.
Foreign ==
    {i \in 1..Len(last.layers) :
        /\ last.layers[i].swapchain # NoSwapchain
        /\ last.layers[i].swapchain # last.self.backend}

EndFrameCalls ==
    {k \in 1..Len(last.native) : last.native[k].fn = "xrEndFrame"}

\* The last end call handed the native end-frame call exactly the layers
\* that are not foreign (those without a swapchain included), in their
\* original relative order, and logged one message per foreign layer.
SubmittedTheRest ==
    /\ Len(last.logs) = Cardinality(Foreign)
    /\ {last.logs[k].index + 1 : k \in 1..Len(last.logs)} = Foreign
    /\ \A k \in EndFrameCalls :
        LET sub == last.native[k].layers
        IN  /\ Len(sub) = Len(last.layers) - Cardinality(Foreign)
            /\ {sub[j] : j \in 1..Len(sub)} =
                   {last.layers[i].header : i \in (1..Len(last.layers)) \ Foreign}
            /\ \A j1, j2 \in 1..Len(sub) : j1 < j2 => sub[j1] < sub[j2]

C7_NativeEndOnce ==
    EndReturned =>
        /\ Len(last.native) = 1
        /\ last.native[1].fn = "xrEndFrame"
        /\ last.ret.ok <=> last.native[1].ret.ok
        /\ ~last.ret.ok => last.ret.err = NativeError(last.native[1].ret.err)

C7_Witness ==
    /\ EndReturned
    /\ Len(last.layers) >= 2
    /\ Cardinality(Foreign) = Len(last.layers)
    /\ ~last.ret.ok
    /\ last.self.frame = "Began"

\* C8: the frame stream is in one of two states, Idle or Began; a begin
\* that succeeds found it Idle and leaves it Began; an end that succeeds
\* found it Began and leaves it Idle; a begin inside a begin/end bracket
\* fails with the native error and leaves it Began.
C8_TwoStateMachine ==
    /\ stream.frame \in {"Idle", "Began"}
    /\ (last.op = "begin" /\ last.ret.ok) =>
          (last.self.frame = "Idle" /\ stream.frame = "Began")
    /\ (last.op = "end" /\ last.ret.ok) =>
          (last.self.frame = "Began" /\ stream.frame = "Idle")
    /\ (last.op = "begin" /\ last.self.frame = "Began") =>
          /\ ~last.ret.ok
          /\ last.ret = last.native[1].ret
          /\ last.ret.err = "CallOrderInvalid"
          /\ stream.frame = "Began"

C8_Witness ==
    /\ last.op = "begin"
    /\ last.self.frame = "Began"
    /\ ~last.ret.ok
    /\ stream.frame = "Began"
    /\ last.native # <<>>

----------------------------------------------------------------------------
(* Claims about XrSwapchain (checked under SpecSwap) *)

SwapchainCalls == {"acquire_image", "wait_image", "release_image"}

InsideCall(t) == thr[t].pc = "locked"

\* Thread t is between an acquire_image of its own and the matching
\* release_image.
MidCycle(t) == \E k \in 1..Len(acquired_by) : acquired_by[k] = t

\* C9: a wait_image or release_image called when no acquire_image is
\* unmatched fails; after a release_image that succeeded the ring has a free
\* image again, and an acquire_image called with a free image in the ring is
\* never refused as out of order.
C9_StrictCycle ==
    /\ (last.op \in {"wait_image", "release_image"} /\ last.unmatched = <<>>)
          => ~last.ret.ok
    /\ (last.op = "release_image" /\ last.ret.ok)
          => (Len(acquired_by) < RingSize /\ swapchain.acquired < RingSize)
    /\ (last.op = "acquire_image" /\ Len(last.unmatched) < RingSize)
          => (last.ret.ok \/ last.ret.err # NativeError("CallOrderInvalid"))

\* An acquire_image that succeeded on a ring with no image acquired, after
\* an earlier acquire / wait / release cycle had completed.
C9_Witness ==
    /\ last.op = "acquire_image"
    /\ last.ret.ok
    /\ last.unmatched = <<>>
    /\ last.self.next # 0

----------------------------------------------------------------------------
(* Claim about XrEntry::available_backends (checked under Spec) *)

AvailableBackendsReturned == last.op = "available_backends"

Listed(list) == {list[i] : i \in DOMAIN list}

\* create_instance for this backend gets past its availability check,
\* whatever extensions are asked for and whatever the native call answers.
PassesAvailability(backend) ==
    \A exts \in SUBSET Exts, native_ok \in BOOLEAN :
        create_instance(available_exts, exts, backend, TRUE, native_ok).ret
            # Err(UnavailableBackend(backend))

----------------------------------------------------------------------------
(* Claims about the backend tags (checked under SpecSession) *)

InitGraphicsReturned == last.op = "init_graphics"
CreateSwapchainReturned == last.op = "create_swapchain"

\* C12: what init_graphics returns carries the tag of the instance it was
\* called on; the session and the frame stream a successful create_session
\* returns carry the tag of the instance it was called on; a swapchain that
\* create_swapchain returns carries the tag of the session it was called on;
\* and the session and frame stream the application holds, created together,
\* carry one tag.
C12_TagPropagates ==
    /\ (InitGraphicsReturned /\ last.ret.ok) =>
           last.ret.val.backend = last.self.backend
    /\ (CreateSessionReturned /\ last.ret.ok) =>
           /\ last.ret.val.session.backend = last.self.backend
           /\ last.ret.val.frame_stream.backend = last.self.backend
    /\ (CreateSwapchainReturned /\ last.ret.ok) =>
           last.ret.val.backend = last.self.backend
    /\ (session # None \/ stream # None) =>
           /\ session # None /\ stream # None
           /\ session.backend = stream.backend

\* A swapchain was created on a session of the second backend, which an
\* instance of that backend had created from its own graphics info.
C12_Witness ==
    /\ CreateSwapchainReturned
    /\ last.ret.ok
    /\ last.self.backend = 2
    /\ stream # None
    /\ XrSessionGraphicsInfo(2) \in infos

----------------------------------------------------------------------------
(* The membership query of the containers (checked under SpecSession) *)

\* C14: a container built with the tag of one backend answers the
\* membership query true for that backend and false for every other one:
\* the session graphics info built by init_graphics when asked with
\* using_graphics_of_val (the query of create_session), the frame stream
\* and the swapchain built by create_session and create_swapchain when asked
\* with using_graphics (the query of end).
C14_MembershipQuery ==
    /\ (InitGraphicsReturned /\ last.ret.ok) =>
           \A b \in Backends :
               using_graphics_of_val(last.ret.val.backend, b)
                   <=> b = last.self.backend
    /\ (CreateSessionReturned /\ last.ret.ok) =>
           \A b \in Backends :
               using_graphics(last.ret.val.frame_stream.backend, b)
                   <=> b = last.info.backend
    /\ (CreateSwapchainReturned /\ last.ret.ok) =>
           \A b \in Backends :
               using_graphics(last.ret.val.backend, b)
                   <=> b = last.self.backend

\* init_graphics built a container for a backend that is not the only one.
C14_Witness ==
    /\ InitGraphicsReturned
    /\ last.ret.ok
    /\ \E b \in Backends :
           /\ b # last.self.backend
           /\ ~using_graphics_of_val(last.ret.val.backend, b)

----------------------------------------------------------------------------
(* Claim about XrSession::enumerate_swapchain_formats (checked under     *)
(* SpecSession)                                                          *)

EnumerateFormatsReturned == last.op = "enumerate_swapchain_formats"

\* The positions of the native list whose format has an engine equivalent.
Convertible(api, formats) ==
    {i \in DOMAIN formats : to_wgpu_format(api, formats[i]) # None}

\* The j-th of these positions, counting from the front.
NthConvertible(api, formats, j) ==
    CHOOSE i \in Convertible(api, formats) :
        Cardinality({k \in Convertible(api, formats) : k < i}) = j - 1

\* C18: enumerate_swapchain_formats fails exactly when the native
\* enumeration fails, then with the native error; otherwise it returns one
\* engine format per native format that has an equivalent, converted, in the
\* native order, and nothing for the others.
C18_ConvertibleInOrder ==
    EnumerateFormatsReturned =>
        LET api == last.self.backend
            formats == last.native_formats
        IN  /\ last.ret.ok <=> last.native_ok
            /\ ~last.native_ok =>
                   last.ret = Err(NativeError("RuntimeFailure"))
            /\ last.native_ok =>
                   /\ Len(last.ret.val) =
                          Cardinality(Convertible(api, formats))
                   /\ \A j \in DOMAIN last.ret.val :
                          Some(last.ret.val[j]) =
                              to_wgpu_format(api,
                                  formats[NthConvertible(api, formats, j)])

\* The runtime listed a format without equivalent between two that have
\* one, the later-numbered first.
C18_Witness ==
    /\ EnumerateFormatsReturned
    /\ last.ret.ok
    /\ Len(last.native_formats) = 3
    /\ Len(last.ret.val) = 2
    /\ to_wgpu_format(last.self.backend, last.native_formats[2]) = None
    /\ last.native_formats[1] > last.native_formats[3]

----------------------------------------------------------------------------
(* Claim about XrSessionStarted (checked under SpecStarted) *)

\* The value of the latest set among the first n operations, false if
\* there is none.
LatestSet(n) ==
    LET sets == {k \in 1..n : history[k].op = "set"}
    IN  IF sets = {} THEN FALSE
        ELSE history[CHOOSE k \in sets : \A m \in sets : m <= k].val

\* C17: in the order in which the set and get calls of all threads took
\* effect, every get returned the value of the latest set before it, or
\* false when no set came before; the flag itself holds the value of the
\* latest set, false at the start.
C17_SequentiallyConsistentRegister ==
    /\ started = LatestSet(Len(history))
    /\ \A i \in DOMAIN history :
           history[i].op = "get" => history[i].ret = LatestSet(i - 1)

\* One thread set the flag, another read true, the flag was cleared and a
\* read from a thread other than the clearing one returned false.
C17_Witness ==
    /\ Len(history) = 4
    /\ history[1].op = "set" /\ history[1].val
    /\ history[2].op = "get" /\ history[2].ret
    /\ history[2].thread # history[1].thread
    /\ history[3].op = "set" /\ ~history[3].val
    /\ history[4].op = "get" /\ ~history[4].ret
    /\ history[4].thread # history[3].thread

----------------------------------------------------------------------------
(* Claim about XrSwapchain::enumerate_images (checked under SpecSwap) *)

EnumerateImagesReturned == last.op = "enumerate_images"

\* C20: enumerate_images returns the native error when the native
\* enumeration fails and the error of the failing conversion when one
\* fails, in both cases without any image array; otherwise it returns one
\* texture per image of the ring, the i-th over the i-th native image. The
\* swapchain's acquired / waited / next state and the outstanding acquires
\* are the same after the call as before it.
C20_AllOrNothing ==
    EnumerateImagesReturned =>
        /\ swapchain = last.self
        /\ acquired_by = last.unmatched
        /\ ~last.env_ok => last.ret = Err(NativeError("RuntimeFailure"))
        /\ (last.env_ok /\ last.fail_at # 0) =>
               last.ret = Err([kind |-> "Conversion",
                               image |-> last.fail_at - 1])
        /\ (last.env_ok /\ last.fail_at = 0) =>
               /\ last.ret.ok
               /\ DOMAIN last.ret.val.images = 1..RingSize
               /\ \A i \in 1..RingSize :
                      last.ret.val.images[i] =
                          [texture |-> i - 1, api |-> last.self.backend]

\* With an image acquired and waited on, the conversion of the second
\* image failed after the first had been converted.
C20_Witness ==
    /\ EnumerateImagesReturned
    /\ last.env_ok
    /\ last.fail_at = 2
    /\ ~last.ret.ok
    /\ swapchain.acquired = 1
    /\ swapchain.waited

----------------------------------------------------------------------------
(* Claims about the guarded calls of both handles (checked under SpecShared) *)

\* The threads inside a call on handle h: past lock(), not yet returned.
Inside(h) ==
    {t \in Threads : thr[t].pc = "locked" /\ HandleOf(thr[t].op) = h}

\* C11: for the frame stream and for the swapchain alike, at most one
\* thread is inside begin, end, acquire_image, wait_image, release_image or
\* enumerate_images on that handle, and that thread holds the handle's
\* mutex until its call returns; a held mutex belongs to a thread inside a
\* call on its handle.
C11_OneOperationPerHandle ==
    \A h \in Handles :
        /\ Cardinality(Inside(h)) <= 1
        /\ \A t \in Inside(h) : mutex[h] = t
        /\ mutex[h] # 0 => mutex[h] \in Inside(h)

\* One thread is inside end on the frame stream while another is inside
\* enumerate_images on the swapchain, each holding its handle's mutex.
C11_Witness ==
    \E t1, t2 \in Threads :
        /\ t1 # t2
        /\ Locked(t1, "stream", "end")
        /\ Locked(t2, "swapchain", "enumerate_images")

GuardedCallReturned == last.op \in StreamOps \cup SwapchainOps

\* C15: a returned begin, end, acquire_image, wait_image, release_image or
\* enumerate_images made its native call at most once, and when that call
\* failed the caller got an error carrying the native result code (begin
\* returns the code itself, the others wrap it); a returned create_instance
\* made each of its two native calls at most once and a returned
\* create_session its one, and a failure of any of them came back as an
\* error.
C15_NoRetryNoSwallow ==
    /\ GuardedCallReturned =>
           /\ Len(last.native) <= 1
           /\ \A i \in DOMAIN last.native :
                  ~last.native[i].ret.ok =>
                      /\ ~last.ret.ok
                      /\ last.ret.err =
                             IF last.op = "begin"
                             THEN last.native[i].ret.err
                             ELSE NativeError(last.native[i].ret.err)
    /\ CreateInstanceReturned =>
           /\ \A i, j \in DOMAIN last.native :
                  last.native[i].fn = last.native[j].fn => i = j
           /\ ~last.enum_ok => last.ret = Err(NativeError("RuntimeFailure"))
           /\ (Len(last.native) = 2 /\ ~last.native_ok) =>
                  last.ret = Err(NativeError("RuntimeFailure"))
    /\ CreateSessionReturned =>
           /\ Len(last.native) <= 1
           /\ (Len(last.native) = 1 /\ ~last.native_ok) =>
                  last.ret = Err(NativeError("RuntimeFailure"))

\* With every image of the ring acquired, acquire_image was refused by the
\* runtime, once, and returned that refusal.
C15_Witness ==
    /\ last.op = "acquire_image"
    /\ last.self.acquired = RingSize
    /\ Len(last.native) = 1
    /\ last.ret = Err(NativeError("CallOrderInvalid"))

\* A call ended in a panic raised by the call's own lock().unwrap().
PanickedAtLock == last.op = "panic" /\ last.at = "lock().unwrap()"

\* C16: in every reachable state, also after an earlier call on the same
\* handle was interrupted while it held the lock, no call on a frame stream
\* or swapchain ends in a panic of its own: each returns success or a typed
\* error.
C16_AsClaimed == ~PanickedAtLock

\* An end was interrupted under the lock of the frame stream; the begin
\* that came next panicked at lock().unwrap(), while the swapchain's mutex
\* was never poisoned.
C16_Witness ==
    /\ PanickedAtLock
    /\ last.in = "begin"
    /\ poisoned["stream"]
    /\ ~poisoned["swapchain"]

----------------------------------------------------------------------------
(* The lock discipline (checked under SpecWaitingFair) *)

Held(t) == {h \in Handles : mutex[h] = t}

Waiting(t) == thr[t].pc = "waiting"

\* The lock discipline of the guarded calls: a thread holds at most one
\* mutex, and only that of the handle its call is on; a thread blocked in
\* lock() holds none; a thread outside a call holds none, whichever way its
\* last call ended.
LockDiscipline ==
    \A t \in Threads :
        /\ Cardinality(Held(t)) <= 1
        /\ Held(t) # {} =>
               thr[t].pc = "locked" /\ Held(t) = {HandleOf(thr[t].op)}
        /\ thr[t].pc = "locked" => Held(t) = {HandleOf(thr[t].op)}

\* No waiting thread waits for a thread that is itself waiting.
NoWaitCycle ==
    \A t \in Threads :
        Waiting(t) =>
            \/ mutex[HandleOf(thr[t].op)] = 0
            \/ thr[mutex[HandleOf(thr[t].op)]].pc = "locked"

\* C19 as claimed: the lock discipline holds, no thread waits for a waiting
\* thread, and every pending operation eventually gets the lock.
C19_AsClaimed ==
    /\ [](LockDiscipline /\ NoWaitCycle)
    /\ \A t \in Threads : Waiting(t) ~> ~Waiting(t)

\* C19: every call takes the mutex of the handle it is called on and no
\* other, a thread blocked in lock() holds no mutex, a thread whose call
\* has ended holds none whether the call returned a value, an error or
\* panicked, and a blocked thread waits for a mutex that is free or held by
\* a thread inside a call: no interleaving deadlocks.
C19_LockDisciplineNoDeadlock == LockDiscipline /\ NoWaitCycle

\* An end handed a layer that reports a swapchain returned an error and
\* left the frame stream's mutex free, all while another thread held the
\* swapchain's mutex.
C19_Witness ==
    /\ last.op = "end"
    /\ \E i \in DOMAIN last.layers : last.layers[i].swapchain # NoSwapchain
    /\ ~last.ret.ok
    /\ mutex["stream"] = 0
    /\ mutex["swapchain"] \notin {0, last.thread}

====
